---- MODULE Spec2Model ----
(***************************************************************************)
(* Model of app.py, the ASFIES CAOM lead-qualification service: the matrix *)
(* loader and its process-wide cache, the profile matcher, the strategy    *)
(* anonymiser, the narrative generator, the lead mailer and the            *)
(* POST /diagnostico handler.                                              *)
(*                                                                         *)
(* Text is modelled in two ways.  Names and labels that the code only      *)
(* compares for equality or looks up (column names, the years label, the   *)
(* sales-range label, institution names, header values) are TLA+ strings.  *)
(* Cell texts that the code scans (the X marker, the age requirement, the  *)
(* financing type) are tuples of one-character strings, so that strip,     *)
(* upper, the digit search and the regular-expression search are computed. *)
(* An empty spreadsheet cell reads as the text "nan" (str of a float NaN). *)
(***************************************************************************)
EXTENDS Integers, Sequences, FiniteSets, TLC

VARIABLES
    ASFIES_TOKEN,     \* the configured secret, "" when unset
    OPENAI_API_KEY,   \* the text-generation credential, "" when unset
    SMTP,             \* the mail settings: [host, user, pass, from, to]
    disk,             \* the spreadsheet file: [exists, header, data]
    _MATRIZ_CACHE,    \* the process-wide cache slot: [set, df]
    fileReads,        \* how many times pd.read_excel has run
    cacheWrites,      \* how many times _MATRIZ_CACHE has been assigned
    pc,               \* per worker thread: the handler's position
    req,              \* per thread: the request being handled
    loc,              \* per thread: the handler's local variables
    resp,             \* per thread: the response [code, body]
    trail,            \* per thread: what this request has done so far
    mPerfil,          \* matcher harness: the profile handed to the matcher
    mTable,           \* matcher harness: the loaded table handed to it
    mOut              \* matcher harness: the matcher's stages and result

vars == <<ASFIES_TOKEN, OPENAI_API_KEY, SMTP, disk, _MATRIZ_CACHE, fileReads,
          cacheWrites, pc, req, loc, resp, trail, mPerfil, mTable, mOut>>

serverVars == <<ASFIES_TOKEN, OPENAI_API_KEY, SMTP, disk, _MATRIZ_CACHE,
                fileReads, cacheWrites, pc, req, loc, resp, trail>>

matchVars == <<mPerfil, mTable, mOut>>

----------------------------------------------------------------------------
(* Bounds *)

\* Worker threads of the threaded server that may handle requests at once.
NumThreads == 2

\* Rows of the tables the matcher harness enumerates.
MaxRows == 5

----------------------------------------------------------------------------
(* Characters and scanned text *)

Digit == {"0", "1", "2", "3", "4", "5", "6", "7", "8", "9"}

DigitVal(c) ==
    CASE c = "0" -> 0 [] c = "1" -> 1 [] c = "2" -> 2 [] c = "3" -> 3
      [] c = "4" -> 4 [] c = "5" -> 5 [] c = "6" -> 6 [] c = "7" -> 7
      [] c = "8" -> 8 [] c = "9" -> 9

\* str.upper / str.lower on the letters the model's texts use
UpperC(c) ==
    CASE c = "x" -> "X" [] c = "c" -> "C" [] c = "r" -> "R" [] c = "a" -> "A"
      [] c = "n" -> "N" [] c = "l" -> "L" [] OTHER -> c

LowerC(c) ==
    CASE c = "X" -> "x" [] c = "C" -> "c" [] c = "R" -> "r" [] c = "A" -> "a"
      [] c = "N" -> "n" [] c = "L" -> "l" [] OTHER -> c

Upper(s) == [i \in 1..Len(s) |-> UpperC(s[i])]

\* str.strip(): drop leading and trailing whitespace
RECURSIVE LStrip(_)
LStrip(s) == IF s # <<>> /\ Head(s) = " " THEN LStrip(Tail(s)) ELSE s

RECURSIVE RStrip(_)
RStrip(s) ==
    IF s # <<>> /\ s[Len(s)] = " " THEN RStrip(SubSeq(s, 1, Len(s) - 1)) ELSE s

StripText(s) == LStrip(RStrip(s))

\* str.strip() on the labels of the model that carry padding
StripLabel(s) ==
    CASE s = " Más de 5 años " -> "Más de 5 años"
      [] s = "1M-10M " -> "1M-10M"
      [] s = " Financiera" -> "Financiera"
      [] s = "Antigüedad " -> "Antigüedad"
      [] s = " yes " -> "yes"
      [] s = " " -> ""
      [] OTHER -> s

\* str.lower() on the labels of the model that carry capitals
LowerLabel(s) ==
    CASE s = "True" -> "true"
      [] s = "False" -> "false"
      [] s = "Si" -> "si"
      [] s = "SÍ" -> "sí"
      [] s = "NO" -> "no"
      [] OTHER -> s

\* The first position of x in the sequence s, 0 when absent
IndexOf(s, x) ==
    IF \E i \in 1..Len(s) : s[i] = x
    THEN CHOOSE i \in 1..Len(s) : s[i] = x /\ \A j \in 1..(i - 1) : s[j] # x
    ELSE 0

Range(s) == {s[i] : i \in 1..Len(s)}

----------------------------------------------------------------------------
(* JSON values of the request body, as request.get_json delivers them *)

JNull == [k |-> "null", b |-> FALSE, s |-> ""]
JBool(x) == [k |-> "bool", b |-> x, s |-> ""]
JStr(x) == [k |-> "str", b |-> FALSE, s |-> x]

\* str(x) of a JSON value
PyStr(v) ==
    CASE v.k = "bool" -> (IF v.b THEN "True" ELSE "False")
      [] OTHER -> v.s

_safe_str(x) == IF x.k = "null" THEN "" ELSE StripLabel(PyStr(x))

TruthyTokens == {"true", "1", "yes", "si", "sí", "y"}

_as_bool(v) ==
    IF v.k = "bool" THEN v.b ELSE LowerLabel(_safe_str(v)) \in TruthyTokens

----------------------------------------------------------------------------
(* Scanned text: the age requirement and the financing-type pattern *)

\* A text field of the body: absent/null, or a string given by its characters
TNull == [k |-> "null", t |-> <<>>]
TStr(t) == [k |-> "str", t |-> t]

\* _safe_str on a scanned text
_safe_text(x) == IF x.k = "null" THEN <<>> ELSE StripText(x.t)

\* int() of the run of digits that starts at position i of s
RECURSIVE DigitRun(_, _, _)
DigitRun(s, i, acc) ==
    IF i > Len(s) \/ s[i] \notin Digit
    THEN acc
    ELSE DigitRun(s, i + 1, acc * 10 + DigitVal(s[i]))

\* Faulty variant: only the first digit of the run is read
_extract_min_years_first_digit(val) ==
    LET s == StripText(val)
        hits == {i \in 1..Len(s) : s[i] \in Digit}
    IN  IF hits = {} THEN 0
        ELSE DigitVal(s[CHOOSE i \in hits : \A j \in hits : i <= j])

\* re.search(r"(\d+)", s): the first run of digits, 0 when there is none
_extract_min_years(val) ==
    LET s == StripText(val)
        hits == {i \in 1..Len(s) : s[i] \in Digit}
    IN  IF hits = {} THEN 0
        ELSE DigitRun(s, CHOOSE i \in hits : \A j \in hits : i <= j, 0)

_map_antiguedad_user(texto) ==
    CASE texto = "Menos de 1 año" -> 0
      [] texto = "Entre 1 y 3 años" -> 1
      [] texto = "Entre 3 y 5 años" -> 3
      [] texto = "Más de 5 años" -> 5
      [] OTHER -> 0

\* re.compile(pat) succeeds: the patterns of the model are literals, "." and
\* an unbalanced "(" (which raises re.error)
ReCompiles(pat) == \A i \in 1..Len(pat) : pat[i] # "("

\* Series.str.contains(pat, case=False): a regular-expression search
StrContains(text, pat) ==
    \E k \in 0..(Len(text) - Len(pat)) :
        \A i \in 1..Len(pat) :
            pat[i] = "." \/ LowerC(pat[i]) = LowerC(text[k + i])

----------------------------------------------------------------------------
(* Tables: df = [columns |-> names, rows |-> tuples of cells by position] *)

\* df.head(3)
TopN == 3

Cell(df, row, name) == row[IndexOf(df.columns, name)]

\* The first candidate name that is a column of df, "" when none is
FirstColumn(df, cands) ==
    LET hits == {i \in 1..Len(cands) : cands[i] \in Range(df.columns)}
    IN  IF hits = {} THEN ""
        ELSE cands[CHOOSE i \in hits : \A j \in hits : i <= j]

\* lines 93-95: the sales-range filter
SalesFilter(df, perfil) ==
    LET rango == _safe_str(perfil.ventas_rango)
        Marked(row) == StripText(Upper(Cell(df, row, rango))) = <<"X">>
    IN  IF rango # "" /\ rango \in Range(df.columns)
        THEN [df EXCEPT !.rows = SelectSeq(df.rows, Marked)]
        ELSE df

AntCandidates == <<"Antigúedad", "Antiguedad", "Antigüedad">>

\* df["min_anios"] = ...: the new column goes last
WithMinAnios(df, values) ==
    [columns |-> Append(df.columns, "min_anios"),
     rows |-> [i \in 1..Len(df.rows) |-> Append(df.rows[i], values[i])]]

\* lines 97-109: the years-in-business filter
AgeFilter(df, perfil) ==
    LET user_years == _map_antiguedad_user(_safe_str(perfil.antiguedad))
        ant_col == FirstColumn(df, AntCandidates)
        years == [i \in 1..Len(df.rows) |->
                    _extract_min_years(Cell(df, df.rows[i], ant_col))]
        zeros == [i \in 1..Len(df.rows) |-> 0]
        Old(row) == row[Len(row)] <= user_years
    IN  IF ant_col # ""
        THEN [columns |-> WithMinAnios(df, years).columns,
              rows |-> SelectSeq(WithMinAnios(df, years).rows, Old)]
        ELSE WithMinAnios(df, zeros)

TipoCandidates ==
    <<"Tipo de financiamiento", "Tipo", "Producto", "Tipo de financiamiento ">>

\* line 117: the financing-type filter runs
TipoApplies(df, perfil) ==
    FirstColumn(df, TipoCandidates) # "" /\ _safe_text(perfil.tipo_financiamiento) # <<>>

\* line 118 raises re.error
TipoRaises(df, perfil) ==
    TipoApplies(df, perfil) /\ ~ReCompiles(_safe_text(perfil.tipo_financiamiento))

\* lines 111-118: the financing-type filter
TipoFilter(df, perfil) ==
    LET tipo_user == _safe_text(perfil.tipo_financiamiento)
        tipo_col == FirstColumn(df, TipoCandidates)
        Has(row) == StrContains(Cell(df, row, tipo_col), tipo_user)
    IN  IF TipoApplies(df, perfil)
        THEN [df EXCEPT !.rows = SelectSeq(df.rows, Has)]
        ELSE df

\* Faulty variant: df.tail(3)
df_head_last(df) ==
    LET n == Len(df.rows)
    IN  [df EXCEPT !.rows = SubSeq(df.rows, IF n > TopN THEN n - TopN + 1 ELSE 1, n)]

\* line 120: df.head(3)
df_head(df) ==
    [df EXCEPT !.rows = SubSeq(df.rows, 1, IF Len(df.rows) < TopN THEN Len(df.rows) ELSE TopN)]

\* row.get(col(...)) through _safe_str: "" when no candidate column exists
Field(df, row, cands) ==
    LET c == FirstColumn(df, cands)
    IN  IF c = "" THEN <<>> ELSE StripText(Cell(df, row, c))

\* the institution name is a label, not a scanned text
NameField(df, row, cands) ==
    LET c == FirstColumn(df, cands)
    IN  IF c = "" THEN "" ELSE StripLabel(Cell(df, row, c))

\* lines 130-144: one result record per row of top_df
Records(df) ==
    [i \in 1..Len(df.rows) |->
        [financiera |-> NameField(df, df.rows[i], <<"Financiera", "Nombre", "Institución">>),
         tipo |-> Field(df, df.rows[i], <<"Tipo de financiamiento", "Tipo", "Producto">>),
         caracteristicas |-> Field(df, df.rows[i],
             <<"Como ayuda este financiamiento", "Cómo ayuda este financiamiento",
               "Ayuda", "Descripción">>),
         monto_ref |-> Field(df, df.rows[i], <<"Montos en pesos", "Monto", "Montos">>),
         plazo_ref |-> Field(df, df.rows[i], <<"Plazos", "Plazo">>)]]

\* The matcher, stage by stage, on a copy of the loaded table
Stages(perfil, table) ==
    LET sales == SalesFilter(table, perfil)
        age == AgeFilter(sales, perfil)
        raised == TipoRaises(age, perfil)
        tipo == IF raised THEN age ELSE TipoFilter(age, perfil)
    IN  [sales |-> sales, age |-> age, tipo |-> tipo, raised |-> raised,
         recs |-> IF raised THEN <<>> ELSE Records(df_head(tipo))]

\* lines 90-145: [raised, recs]
obtener_recomendaciones_financieras(perfil, table) ==
    LET st == Stages(perfil, table)
    IN  [raised |-> st.raised, recs |-> st.recs]

----------------------------------------------------------------------------
(* The matrix loader *)

NoTable == [columns |-> <<>>, rows |-> <<>>]

EmptySlot == [set |-> FALSE, df |-> NoTable]

\* lines 67-68: pd.read_excel, then every column header stripped
ReadExcel(file) ==
    [columns |-> [i \in 1..Len(file.header) |-> StripLabel(file.header[i])],
     rows |-> file.data]

----------------------------------------------------------------------------
(* The strategy anonymiser, the narrative generator and the lead mailer *)

nombres == <<"Estrategia Alfa", "Estrategia Beta", "Estrategia Delta">>

EstrategiaLabel(i) ==
    (IF i - 1 < Len(nombres) THEN nombres[i] ELSE "Estrategia " \o ToString(i))
        \o ": Optimización con Respaldo Inmobiliario"

\* Faulty variant: the label is the institution name
recomendaciones_a_estrategias_named(recs) ==
    [i \in 1..Len(recs) |->
        [estrategia |-> recs[i].financiera,
         tipo |-> recs[i].tipo,
         caracteristicas |-> recs[i].caracteristicas,
         monto_ref |-> recs[i].monto_ref,
         plazo_ref |-> recs[i].plazo_ref]]

\* lines 148-160
recomendaciones_a_estrategias(recs) ==
    [i \in 1..Len(recs) |->
        [estrategia |-> EstrategiaLabel(i),
         tipo |-> recs[i].tipo,
         caracteristicas |-> recs[i].caracteristicas,
         monto_ref |-> recs[i].monto_ref,
         plazo_ref |-> recs[i].plazo_ref]]

\* lines 167-171, 172-175, 214: the three fixed texts, and a generated one
TextoGarantia == "Con base en tu perfil y el respaldo patrimonial, ... Un estratega te contactará a la brevedad ..."
TextoSinGarantia == "Con base en tu perfil, te compartimos recomendaciones preliminares ... el alcance es informativo ..."
TextoError == "Nuestro equipo procesará tu información para entregarte un diagnóstico preliminar."
TextoGenerado == "<resp.choices[0].message.content.strip()>"

\* What the text-generation call can do when it is made
LlmOutcomes == {"text", "raise"}

\* Faulty variant: no except clause around the call
generar_diagnostico_gpt_no_catch(key, es_garantia, outcome) ==
    IF key = ""
    THEN [raised |-> FALSE, text |-> IF es_garantia THEN TextoGarantia ELSE TextoSinGarantia]
    ELSE IF outcome = "text"
         THEN [raised |-> FALSE, text |-> TextoGenerado]
         ELSE [raised |-> TRUE, text |-> ""]

\* lines 163-214: [raised, text]; the except clause returns TextoError
generar_diagnostico_gpt(key, es_garantia, outcome) ==
    IF key = ""
    THEN [raised |-> FALSE, text |-> IF es_garantia THEN TextoGarantia ELSE TextoSinGarantia]
    ELSE IF outcome = "text"
         THEN [raised |-> FALSE, text |-> TextoGenerado]
         ELSE [raised |-> FALSE, text |-> TextoError]

\* line 226: the non-empty, stripped parts of SMTP_TO.split(",")
ToList(to) ==
    CASE to = "" -> <<>>
      [] to = "," -> <<>>
      [] OTHER -> <<to>>

\* What the SMTP session can do when it is opened
SmtpOutcomes == {"sent", "raise"}

\* lines 217-275: what send_lead_email did; it never raises
send_lead_email(smtp, outcome) ==
    LET email_ok == smtp.host # "" /\ smtp.user # "" /\ smtp.pass # ""
                    /\ smtp.from # "" /\ smtp.to # ""
    IN  IF ~email_ok THEN "skipped_config"
        ELSE IF ToList(smtp.to) = <<>> THEN "skipped_to"
        ELSE IF outcome = "sent" THEN "sent"
        ELSE "error"

----------------------------------------------------------------------------
(* The responses of POST /diagnostico: [code, body] *)

NoResponse == [code |-> 0, body |-> [pending |-> TRUE]]

\* line 306
MisconfiguredResponse ==
    [code |-> 500, body |-> [error |-> "Server misconfigured: ASFIES_TOKEN missing"]]

\* line 308
UnauthorizedResponse == [code |-> 401, body |-> [error |-> "Unauthorized"]]

\* an exception outside the try block: the framework's own 500 page
UnhandledResponse == [code |-> 500, body |-> [html |-> "Internal Server Error"]]

TextoNoEncontrado == "Por el momento no encontramos coincidencias exactas en nuestra matriz para el perfil capturado. Si lo deseas, un consultor puede revisarlo manualmente."

HeaderFor(es_garantia) ==
    IF es_garantia THEN "Tenemos las siguientes estrategias"
    ELSE "Opciones de Financiamiento Identificadas"

\* Faulty variant: the not-found body without its header
NotFoundResponse_no_header(es_garantia) ==
    [code |-> 200,
     body |-> [status |-> "not_found",
               diagnostico_ia |-> TextoNoEncontrado,
               recomendaciones |-> <<>>]]

\* Faulty variant: no match reported as an error
NotFoundResponse_as_error(es_garantia) ==
    [code |-> 404,
     body |-> [status |-> "error",
               header |-> HeaderFor(es_garantia),
               diagnostico_ia |-> TextoNoEncontrado,
               recomendaciones |-> <<>>]]

\* lines 327-336
NotFoundResponse(es_garantia) ==
    [code |-> 200,
     body |-> [status |-> "not_found",
               header |-> HeaderFor(es_garantia),
               diagnostico_ia |-> TextoNoEncontrado,
               recomendaciones |-> <<>>]]

\* lines 346-351 and 354-359
SuccessResponse(es_garantia, diag, items) ==
    [code |-> 200,
     body |-> [status |-> "success",
               header |-> HeaderFor(es_garantia),
               diagnostico_ia |-> diag,
               recomendaciones |-> items]]

\* lines 361-367
ErrorResponse ==
    [code |-> 500,
     body |-> [status |-> "error",
               error |-> "Error interno procesando el diagnóstico",
               recomendaciones |-> <<>>]]

----------------------------------------------------------------------------
(* The environment the server runs in, and the requests it receives *)

Threads == 1..NumThreads

Secret == "s3cr3t"

\* The spreadsheet shipped with the service: five offers.  Headers carry the
\* padding that the loader strips.
MatrizHeader ==
    <<" Financiera", "Tipo de financiamiento", "Antiguedad", "1M-10M ", "Plazos">>

MatrizData ==
    << <<"Banco Uno", <<"C", "r">>, <<"1", " ", "a">>, <<"X">>, <<"1", "2">>>>,
       <<"Banco Dos", <<"L", "a">>, <<"n", "a", "n">>, <<"x", " ">>, <<"2", "4">>>>,
       <<"Fin Tres", <<"C", "r">>, <<"3">>, <<"X">>, <<"n", "a", "n">>>>,
       <<"Caja Cuatro", <<"C", "r">>, <<"2", "a">>, <<"X">>, <<"3", "6">>>>,
       <<"Banco Cinco", <<"C", "r">>, <<"1", "0">>, <<"n", "a", "n">>, <<"6", "0">>>> >>

FilePresent == [exists |-> TRUE, header |-> MatrizHeader, data |-> MatrizData]

FileMissing == [exists |-> FALSE, header |-> <<>>, data |-> <<>>]

\* The institution names of a spreadsheet file
InstitutionNames(file) == {file.data[i][1] : i \in 1..Len(file.data)}

SmtpSettings ==
    {[host |-> h, user |-> "u", pass |-> "p", from |-> "f@asfies", to |-> t] :
        h \in {"", "smtp.asfies"}, t \in {",", "ventas@asfies"}}

EmptyDatos ==
    [tiene_garantia_inmueble |-> JNull, solicita_contacto |-> JNull,
     ventas_rango |-> JNull, antiguedad |-> JNull, tipo_financiamiento |-> TNull]

\* The JSON objects a client may post
Datos ==
    [tiene_garantia_inmueble : {JBool(TRUE), JBool(FALSE), JStr("Si"), JNull},
     solicita_contacto : {JBool(TRUE), JStr(" yes "), JStr("NO"), JNull},
     ventas_rango : {JNull, JStr("1M-10M ")},
     antiguedad : {JNull, JStr("Entre 1 y 3 años"), JStr(" Más de 5 años ")},
     tipo_financiamiento : {TNull, TStr(<<"c", "r">>), TStr(<<"(">>)}]

\* The Authorization header after request.headers.get("Authorization", "")
AuthHeaders == {"", "Bearer " \o Secret, "Bearer nope", Secret, "Bearer "}

\* A body that is a JSON object (or absent, or falsy: {} then), or a truthy
\* JSON value of another type
Requests ==
    [auth : AuthHeaders, kind : {"object"}, datos : Datos]
        \cup [auth : AuthHeaders, kind : {"other"}, datos : {EmptyDatos}]

\* Two authorized requests: one that matches offers, one that matches none
RequestsConc ==
    [auth : {"Bearer " \o Secret}, kind : {"object"},
     datos : {[EmptyDatos EXCEPT !.antiguedad = JStr(" Más de 5 años "),
                                 !.tiene_garantia_inmueble = JBool(TRUE)],
              [EmptyDatos EXCEPT !.tipo_financiamiento = TStr(<<"c", "r">>)]}]

NoRequest == [auth |-> "", kind |-> "none", datos |-> EmptyDatos]

NoLocals ==
    [es_garantia |-> FALSE, solicita_contacto |-> FALSE, df |-> NoTable,
     financieras |-> <<>>, diag |-> ""]

NoTrail ==
    [loader |-> FALSE, match |-> "none", llm |-> "none", mail |-> "none",
     slot |-> EmptySlot]

----------------------------------------------------------------------------
(* The matcher harness: tables and profiles handed to the matcher *)

RowPool ==
    {[tipo |-> <<"C", "r">>, age |-> <<"3", " ", "a">>, mark |-> <<"X">>],
     [tipo |-> <<"C", "r">>, age |-> <<"n", "a", "n">>, mark |-> <<"x", " ">>],
     [tipo |-> <<"L", "a">>, age |-> <<"1", "0">>, mark |-> <<"X">>],
     [tipo |-> <<"C", "r">>, age |-> <<"a", "1", "n", "5">>, mark |-> <<"n", "a", "n">>]}

HarnessName(i) == "Financiera " \o ToString(i)

HarnessTable(withAge, picks) ==
    IF withAge
    THEN [columns |-> <<"Financiera", "Tipo", "Antigüedad", "1M-10M">>,
          rows |-> [i \in 1..Len(picks) |->
                      <<HarnessName(i), picks[i].tipo, picks[i].age, picks[i].mark>>]]
    ELSE [columns |-> <<"Financiera", "Tipo", "1M-10M">>,
          rows |-> [i \in 1..Len(picks) |->
                      <<HarnessName(i), picks[i].tipo, picks[i].mark>>]]

HarnessTables ==
    {HarnessTable(a, p) : a \in BOOLEAN, p \in UNION {[1..n -> RowPool] : n \in 0..MaxRows}}

HarnessPerfiles ==
    [tiene_garantia_inmueble : {JNull}, solicita_contacto : {JNull},
     ventas_rango : {JNull, JStr("1M-10M ")},
     antiguedad : {JNull, JStr("Menos de 1 año"), JStr("Entre 1 y 3 años"),
                   JStr("Entre 3 y 5 años"), JStr(" Más de 5 años "), JStr("10 años")},
     tipo_financiamiento : {TNull, TStr(<<"c", ".">>), TStr(<<"(">>)}]

NoStages ==
    [sales |-> NoTable, age |-> NoTable, tipo |-> NoTable, raised |-> FALSE, recs |-> <<>>]

----------------------------------------------------------------------------
(* Initial states *)

ServerIdle ==
    /\ _MATRIZ_CACHE = EmptySlot
    /\ fileReads = 0
    /\ cacheWrites = 0
    /\ pc = [r \in Threads |-> "idle"]
    /\ req = [r \in Threads |-> NoRequest]
    /\ loc = [r \in Threads |-> NoLocals]
    /\ resp = [r \in Threads |-> NoResponse]
    /\ trail = [r \in Threads |-> NoTrail]

HarnessIdle ==
    /\ mPerfil = EmptyDatos
    /\ mTable = NoTable
    /\ mOut = [done |-> FALSE, st |-> NoStages]

\* The process after start-up, under any configuration
Init ==
    /\ ASFIES_TOKEN \in {"", Secret}
    /\ OPENAI_API_KEY \in {"", "sk-key"}
    /\ SMTP \in SmtpSettings
    /\ disk \in {FilePresent, FileMissing}
    /\ ServerIdle
    /\ HarnessIdle

\* The process after start-up, fully configured, on a threaded server
InitConc ==
    /\ ASFIES_TOKEN = Secret
    /\ OPENAI_API_KEY = ""
    /\ SMTP \in {x \in SmtpSettings : x.host # "" /\ x.to = "ventas@asfies"}
    /\ disk \in {FilePresent, FileMissing}
    /\ ServerIdle
    /\ HarnessIdle

\* The matcher about to be called on a table and a profile
InitMatch ==
    /\ ASFIES_TOKEN = Secret
    /\ OPENAI_API_KEY = ""
    /\ SMTP \in {x \in SmtpSettings : x.host # "" /\ x.to = "ventas@asfies"}
    /\ disk = FileMissing
    /\ ServerIdle
    /\ mPerfil \in HarnessPerfiles
    /\ mTable \in HarnessTables
    /\ mOut = [done |-> FALSE, st |-> NoStages]

----------------------------------------------------------------------------
(* POST /diagnostico, one action per step of the handler.  A step ends where *)
(* the handler reads or writes the shared cache slot, or calls out.          *)

Respond(r, response) ==
    /\ resp' = [resp EXCEPT ![r] = response]
    /\ pc' = [pc EXCEPT ![r] = "done"]

\* A request arrives at an idle worker thread
Receive(r, requests) ==
    /\ pc[r] = "idle"
    /\ \E q \in requests : req' = [req EXCEPT ![r] = q]
    /\ pc' = [pc EXCEPT ![r] = "auth"]
    /\ trail' = [trail EXCEPT ![r] = [NoTrail EXCEPT !.slot = _MATRIZ_CACHE]]
    /\ UNCHANGED <<ASFIES_TOKEN, OPENAI_API_KEY, SMTP, disk, _MATRIZ_CACHE,
                   fileReads, cacheWrites, loc, resp, matchVars>>

\* Faulty variant: a missing header is not rejected
AuthOutcome_empty_passes(token, auth) ==
    IF token = "" THEN "misconfigured"
    ELSE IF auth # "" /\ auth # "Bearer " \o token THEN "unauthorized"
    ELSE "ok"

\* Faulty variant: the bare secret is accepted too
AuthOutcome_prefix_optional(token, auth) ==
    IF token = "" THEN "misconfigured"
    ELSE IF auth # "Bearer " \o token /\ auth # token THEN "unauthorized"
    ELSE "ok"

\* lines 304-308
AuthOutcome(token, auth) ==
    IF token = "" THEN "misconfigured"
    ELSE IF auth # "Bearer " \o token THEN "unauthorized"
    ELSE "ok"

\* lines 304-320: the token check, then the body and the two flags
Authenticate(r) ==
    /\ pc[r] = "auth"
    /\ LET outcome == AuthOutcome(ASFIES_TOKEN, req[r].auth)
       IN  IF outcome = "misconfigured"
           THEN Respond(r, MisconfiguredResponse) /\ UNCHANGED loc
           ELSE IF outcome = "unauthorized"
           THEN Respond(r, UnauthorizedResponse) /\ UNCHANGED loc
           ELSE IF req[r].kind = "other"
           THEN Respond(r, UnhandledResponse) /\ UNCHANGED loc
           ELSE /\ loc' = [loc EXCEPT ![r] =
                    [NoLocals EXCEPT
                        !.es_garantia = _as_bool(req[r].datos.tiene_garantia_inmueble),
                        !.solicita_contacto = _as_bool(req[r].datos.solicita_contacto)]]
                /\ pc' = [pc EXCEPT ![r] = "load"]
                /\ UNCHANGED resp
    /\ UNCHANGED <<ASFIES_TOKEN, OPENAI_API_KEY, SMTP, disk, _MATRIZ_CACHE,
                   fileReads, cacheWrites, req, trail, matchVars>>

\* lines 57-59: _load_matriz reads the cache slot
LoadCheck(r) ==
    /\ pc[r] = "load"
    /\ trail' = [trail EXCEPT ![r].loader = TRUE]
    /\ IF _MATRIZ_CACHE.set
       THEN /\ loc' = [loc EXCEPT ![r].df = _MATRIZ_CACHE.df]
            /\ pc' = [pc EXCEPT ![r] = "match"]
       ELSE /\ pc' = [pc EXCEPT ![r] = "read"]
            /\ UNCHANGED loc
    /\ UNCHANGED <<ASFIES_TOKEN, OPENAI_API_KEY, SMTP, disk, _MATRIZ_CACHE,
                   fileReads, cacheWrites, req, resp, matchVars>>

\* lines 61-68: the file is read; a missing file raises into line 361
LoadRead(r) ==
    /\ pc[r] = "read"
    /\ IF ~disk.exists
       THEN Respond(r, ErrorResponse) /\ UNCHANGED <<loc, fileReads>>
       ELSE /\ loc' = [loc EXCEPT ![r].df = ReadExcel(disk)]
            /\ fileReads' = fileReads + 1
            /\ pc' = [pc EXCEPT ![r] = "store"]
            /\ UNCHANGED resp
    /\ UNCHANGED <<ASFIES_TOKEN, OPENAI_API_KEY, SMTP, disk, _MATRIZ_CACHE,
                   cacheWrites, req, trail, matchVars>>

\* lines 69-71: the table is stored in the cache slot
LoadStore(r) ==
    /\ pc[r] = "store"
    /\ _MATRIZ_CACHE' = [set |-> TRUE, df |-> loc[r].df]
    /\ cacheWrites' = cacheWrites + 1
    /\ pc' = [pc EXCEPT ![r] = "match"]
    /\ UNCHANGED <<ASFIES_TOKEN, OPENAI_API_KEY, SMTP, disk, fileReads, req, loc,
                   resp, trail, matchVars>>

\* lines 91-145 and 323-336: the matcher on a copy of the table, then the
\* not-found answer when it returns nothing
Match(r) ==
    /\ pc[r] = "match"
    /\ LET m == obtener_recomendaciones_financieras(req[r].datos, loc[r].df)
       IN  /\ trail' = [trail EXCEPT ![r].match =
                    IF m.raised THEN "raised"
                    ELSE IF m.recs = <<>> THEN "empty" ELSE "some"]
           /\ IF m.raised
              THEN Respond(r, ErrorResponse) /\ UNCHANGED loc
              ELSE /\ loc' = [loc EXCEPT ![r].financieras = m.recs]
                   /\ IF m.recs = <<>>
                      THEN Respond(r, NotFoundResponse(loc[r].es_garantia))
                      ELSE pc' = [pc EXCEPT ![r] = "narrative"] /\ UNCHANGED resp
    /\ UNCHANGED <<ASFIES_TOKEN, OPENAI_API_KEY, SMTP, disk, _MATRIZ_CACHE,
                   fileReads, cacheWrites, req, matchVars>>

\* lines 338-340 and 353-359: the narrative; without collateral, the answer
Narrative(r) ==
    /\ pc[r] = "narrative"
    /\ \E outcome \in LlmOutcomes :
        LET d == generar_diagnostico_gpt(OPENAI_API_KEY, loc[r].es_garantia, outcome)
        IN  /\ trail' = [trail EXCEPT ![r].llm =
                    IF OPENAI_API_KEY = "" THEN "nokey" ELSE outcome]
            /\ IF d.raised
               THEN Respond(r, ErrorResponse) /\ UNCHANGED loc
               ELSE /\ loc' = [loc EXCEPT ![r].diag = d.text]
                    /\ IF loc[r].es_garantia
                       THEN pc' = [pc EXCEPT ![r] = "mail"] /\ UNCHANGED resp
                       ELSE Respond(r, SuccessResponse(FALSE, d.text, loc[r].financieras))
    /\ UNCHANGED <<ASFIES_TOKEN, OPENAI_API_KEY, SMTP, disk, _MATRIZ_CACHE,
                   fileReads, cacheWrites, req, matchVars>>

\* lines 342-351: with collateral, the lead mail, then the answer
Mail(r) ==
    /\ pc[r] = "mail"
    /\ \E outcome \in SmtpOutcomes :
        trail' = [trail EXCEPT ![r].mail = send_lead_email(SMTP, outcome)]
    /\ Respond(r, SuccessResponse(TRUE, loc[r].diag,
                                  recomendaciones_a_estrategias(loc[r].financieras)))
    /\ UNCHANGED <<ASFIES_TOKEN, OPENAI_API_KEY, SMTP, disk, _MATRIZ_CACHE,
                   fileReads, cacheWrites, req, loc, matchVars>>

\* The response is sent and the thread is free again
Finish(r) ==
    /\ pc[r] = "done"
    /\ pc' = [pc EXCEPT ![r] = "idle"]
    /\ req' = [req EXCEPT ![r] = NoRequest]
    /\ loc' = [loc EXCEPT ![r] = NoLocals]
    /\ resp' = [resp EXCEPT ![r] = NoResponse]
    /\ trail' = [trail EXCEPT ![r] = NoTrail]
    /\ UNCHANGED <<ASFIES_TOKEN, OPENAI_API_KEY, SMTP, disk, _MATRIZ_CACHE,
                   fileReads, cacheWrites, matchVars>>

\* The matcher harness: obtener_recomendaciones_financieras is called
MatchCall ==
    /\ ~mOut.done
    /\ mOut' = [done |-> TRUE, st |-> Stages(mPerfil, mTable)]
    /\ UNCHANGED <<serverVars, mPerfil, mTable>>

----------------------------------------------------------------------------
(* Specifications *)

\* One request at a time
Next ==
    \/ Receive(1, Requests)
    \/ Authenticate(1)
    \/ LoadCheck(1)
    \/ LoadRead(1)
    \/ LoadStore(1)
    \/ Match(1)
    \/ Narrative(1)
    \/ Mail(1)
    \/ Finish(1)

Spec == Init /\ [][Next]_vars

\* A threaded server: the steps of the requests in flight interleave
NextConc ==
    \E r \in Threads :
        \/ Receive(r, RequestsConc)
        \/ Authenticate(r)
        \/ LoadCheck(r)
        \/ LoadRead(r)
        \/ LoadStore(r)
        \/ Match(r)
        \/ Narrative(r)
        \/ Mail(r)
        \/ Finish(r)

SpecConc == InitConc /\ [][NextConc]_vars

\* The matcher alone, on every table and profile of the harness
NextMatch == MatchCall

SpecMatch == InitMatch /\ [][NextMatch]_vars

----------------------------------------------------------------------------
(* Properties *)

Done(r) == pc[r] = "done"

\* The request of thread r carries the configured secret as its bearer token
Authorized(r) == ASFIES_TOKEN # "" /\ req[r].auth = "Bearer " \o ASFIES_TOKEN

\* The request of thread r got past the token check with a JSON object
Processed(r) == Authorized(r) /\ req[r].kind = "object"

FourKeys == {"status", "header", "diagnostico_ia", "recomendaciones"}

\* C1: a request with both flags false never invokes send_lead_email; a
\* request with either flag true that is answered 200 has invoked it; and a
\* request that invoked it is answered 200 whatever the delivery did.
C1_NotificationGating ==
    \A r \in Threads :
        Done(r) /\ Processed(r) =>
            /\ (~loc[r].es_garantia /\ ~loc[r].solicita_contacto
                    => trail[r].mail = "none")
            /\ ((loc[r].es_garantia \/ loc[r].solicita_contacto) /\ resp[r].code = 200
                    => trail[r].mail # "none")
            /\ (trail[r].mail # "none" => resp[r].code = 200)

\* C2, as stated: every body the handler returns for a processed request,
\* on the matched, not-found and failure paths, carries the four keys.
C2_FourKeysOnEveryPath ==
    \A r \in Threads :
        Done(r) /\ Processed(r) => FourKeys \subseteq DOMAIN resp[r].body

\* C2, amended: every 200 body (matched and not-found paths) carries the four
\* keys; the internal-error body carries status, error and recomendaciones
\* only.
C2_FourKeysOnSuccessPaths ==
    \A r \in Threads :
        Done(r) /\ Processed(r) =>
            IF resp[r].code = 200
            THEN FourKeys \subseteq DOMAIN resp[r].body
            ELSE /\ resp[r].code = 500
                 /\ DOMAIN resp[r].body = {"status", "error", "recomendaciones"}

C2_Witness ==
    \E r \in Threads :
        /\ Done(r) /\ Processed(r) /\ resp[r].code = 200
        /\ resp[r].body.status = "not_found"

\* C3: with a secret configured, a request whose Authorization header is
\* absent or is not "Bearer " + secret is answered 401 {error: "Unauthorized"},
\* whatever its body and whatever the rest of the configuration.
C3_Unauthorized401 ==
    \A r \in Threads :
        Done(r) /\ ASFIES_TOKEN # "" /\ req[r].auth # "Bearer " \o ASFIES_TOKEN =>
            /\ resp[r].code = 401
            /\ DOMAIN resp[r].body = {"error"}
            /\ resp[r].body.error = "Unauthorized"

C3_Witness ==
    \E r \in Threads :
        /\ Done(r) /\ ASFIES_TOKEN # "" /\ req[r].auth = ""
        /\ req[r].kind = "other" /\ resp[r].code = 401
        /\ OPENAI_API_KEY # "" /\ disk.exists

\* C4: when the collateral flag is true, no returned record carries an
\* institution name of the source table as its financiera or as its label.
C4_Anonymized ==
    \A r \in Threads :
        Done(r) /\ Processed(r) /\ loc[r].es_garantia
            /\ "recomendaciones" \in DOMAIN resp[r].body =>
            \A i \in 1..Len(resp[r].body.recomendaciones) :
                LET rec == resp[r].body.recomendaciones[i]
                IN  \A f \in {"financiera", "estrategia"} \cap DOMAIN rec :
                        rec[f] \notin InstitutionNames(disk)

C4_Witness ==
    \E r \in Threads :
        /\ Done(r) /\ Processed(r) /\ loc[r].es_garantia
        /\ resp[r].code = 200
        /\ Len(resp[r].body.recomendaciones) = 3

\* The position in the harness table of the row that carries this name
PositionOf(name) ==
    CHOOSE i \in 1..Len(mTable.rows) : mTable.rows[i][1] = name

\* C5: the matcher returns exactly the first min(3, n) of the n rows that
\* survive the three filters, in table order.
C5_FirstThreeInOrder ==
    mOut.done /\ ~mOut.st.raised =>
        LET left == mOut.st.tipo.rows
            n == Len(left)
            recs == mOut.st.recs
        IN  /\ Len(recs) = (IF n < 3 THEN n ELSE 3)
            /\ \A k \in 1..Len(recs) : recs[k].financiera = left[k][1]
            /\ \A k \in 1..(n - 1) : PositionOf(left[k][1]) < PositionOf(left[k + 1][1])
            /\ \A k \in 1..n : left[k] \in Range(mOut.st.age.rows)

C5_Witness ==
    /\ mOut.done /\ ~mOut.st.raised
    /\ Len(mOut.st.tipo.rows) = 4
    /\ Len(mOut.st.tipo.rows) < Len(mTable.rows)
    /\ Len(mOut.st.recs) = 3

\* The first integer written in a text, 0 when it holds no digit
FirstInteger(s) ==
    IF \A i \in 1..Len(s) : s[i] \notin Digit
    THEN 0
    ELSE LET a == CHOOSE i \in 1..Len(s) :
                    s[i] \in Digit /\ \A j \in 1..(i - 1) : s[j] \notin Digit
             b == CHOOSE j \in a..Len(s) :
                    /\ \A m \in a..j : s[m] \in Digit
                    /\ (j = Len(s) \/ s[j + 1] \notin Digit)
             RECURSIVE Value(_)
             Value(j) == IF j < a THEN 0 ELSE 10 * Value(j - 1) + DigitVal(s[j])
         IN  Value(b)

\* The minimum years of a years-in-business label
YearsOfLabel(label) ==
    IF label = "Menos de 1 año" THEN 0
    ELSE IF label = "Entre 1 y 3 años" THEN 1
    ELSE IF label = "Entre 3 y 5 años" THEN 3
    ELSE IF label = "Más de 5 años" THEN 5
    ELSE 0

HasAgeColumn == AntCandidates[3] \in Range(mTable.columns)

Names(rows) == {rows[i][1] : i \in 1..Len(rows)}

\* C6: with an age-requirement column, a row survives the years filter iff
\* the first integer of its age text (0 when none) is <= the years mapped
\* from the profile's (trimmed) label; without the column no row is dropped.
C6_AgeFilter ==
    mOut.done =>
        LET before == mOut.st.sales.rows
            after == mOut.st.age.rows
            label == IF mPerfil.antiguedad.k = "null" THEN ""
                     ELSE StripLabel(mPerfil.antiguedad.s)
        IN  IF HasAgeColumn
            THEN \A i \in 1..Len(before) :
                    before[i][1] \in Names(after)
                        <=> FirstInteger(before[i][3]) <= YearsOfLabel(label)
            ELSE Names(after) = Names(before) /\ Len(after) = Len(before)

C6_Witness ==
    /\ mOut.done /\ HasAgeColumn
    /\ mPerfil.antiguedad = JStr("Entre 1 y 3 años")
    /\ \E i \in 1..Len(mOut.st.sales.rows) :
        /\ mOut.st.sales.rows[i][3] = <<"1", "0">>
        /\ mOut.st.sales.rows[i][1] \notin Names(mOut.st.age.rows)
    /\ \E i \in 1..Len(mOut.st.sales.rows) :
        /\ mOut.st.sales.rows[i][3] = <<"a", "1", "n", "5">>
        /\ mOut.st.sales.rows[i][1] \in Names(mOut.st.age.rows)

C6_WitnessNoColumn ==
    mOut.done /\ ~HasAgeColumn /\ Len(mOut.st.age.rows) = MaxRows

\* C7: an authorized request whose profile matches no row is answered 200
\* with status "not_found" and an empty list, and runs neither the narrative
\* generator nor the mailer.
C7_NotFound ==
    \A r \in Threads :
        Done(r) /\ Processed(r) /\ trail[r].match = "empty" =>
            /\ resp[r].code = 200
            /\ resp[r].body.status = "not_found"
            /\ resp[r].body.recomendaciones = <<>>
            /\ trail[r].llm = "none"
            /\ trail[r].mail = "none"

C7_Witness ==
    \E r \in Threads :
        /\ Done(r) /\ Processed(r) /\ trail[r].match = "empty"
        /\ loc[r].es_garantia /\ loc[r].solicita_contacto
        /\ OPENAI_API_KEY # ""

FlagText(es_garantia) == IF es_garantia THEN TextoGarantia ELSE TextoSinGarantia

\* The narrative generator has returned in the request of thread r
NarrativeRan(r) == pc[r] \in {"mail", "done"} /\ trail[r].llm # "none"

\* C8, as stated: without a credential and when the call fails alike, the
\* narrative is one of the two fixed texts, chosen by the collateral flag, and
\* the failure is not propagated.
C8_TwoFallbacks ==
    \A r \in Threads :
        NarrativeRan(r) /\ trail[r].llm \in {"nokey", "raise"} =>
            /\ loc[r].diag = FlagText(loc[r].es_garantia)
            /\ (Done(r) => resp[r].code = 200)

\* C8, amended: without a credential the narrative is one of the two fixed
\* texts, chosen by the collateral flag; when the call fails it is a third
\* fixed text, the same for both flag values; the failure is not propagated.
C8_ThreeFallbacks ==
    \A r \in Threads :
        NarrativeRan(r) =>
            /\ (trail[r].llm = "nokey" => loc[r].diag = FlagText(loc[r].es_garantia))
            /\ (trail[r].llm = "raise" => loc[r].diag = TextoError)
            /\ (Done(r) =>
                    resp[r].code = 200 /\ resp[r].body.diagnostico_ia = loc[r].diag)

C8_Witness ==
    \E r \in Threads :
        /\ Done(r) /\ trail[r].llm = "raise" /\ loc[r].es_garantia
        /\ resp[r].body.diagnostico_ia = TextoError

\* C9: the cache slot is written at most once and the spreadsheet is read at
\* most once in the life of the process, however the requests interleave.
C9_LoadedOnce == cacheWrites <= 1 /\ fileReads <= 1

\* C10: a request that fails the token check is answered 500 (no secret
\* configured) or 401 without the loader, the text-generation service or the
\* mailer having run and with the cache slot as the request found it; and no
\* request is past the token check without the configured bearer token.
C10_AuthFirst ==
    \A r \in Threads :
        /\ pc[r] \in {"load", "read", "store", "match", "narrative", "mail"}
                => Authorized(r)
        /\ Done(r) /\ ~Authorized(r) =>
            /\ resp[r] = (IF ASFIES_TOKEN = "" THEN MisconfiguredResponse
                          ELSE UnauthorizedResponse)
            /\ ~trail[r].loader
            /\ trail[r].match = "none"
            /\ trail[r].llm = "none"
            /\ trail[r].mail = "none"
            /\ _MATRIZ_CACHE = trail[r].slot

C10_Witness ==
    \E r \in Threads :
        /\ Done(r) /\ req[r].auth = Secret /\ ASFIES_TOKEN = Secret
        /\ resp[r].code = 401
        /\ _MATRIZ_CACHE.set

C10_WitnessMisconfigured ==
    \E r \in Threads :
        /\ Done(r) /\ req[r].auth = "Bearer " /\ ASFIES_TOKEN = ""
        /\ resp[r].code = 500 /\ req[r].kind = "object"

====
